---- MODULE Spec2Model ----
(***************************************************************************)
(* Model of python_cdk_utils/cdk_utils.py: the CdkUtilStack configuration  *)
(* resolution and tagging, the local bundler (ADLocalBundling.try_bundle   *)
(* and bundle), and the CdkUtilLambda factory (basic_lambda).              *)
(*                                                                         *)
(* The three components do not interact, so each has its own               *)
(* specification (SpecStack, SpecBundle, SpecLambda) over its own          *)
(* variables; Spec is their interleaving.                                  *)
(***************************************************************************)
EXTENDS Integers, Sequences, FiniteSets, TLC

\* The stack component
VARIABLES
    context,   \* the construct tree's context store: key -> value (None = unset)
    strict,    \* whether the framework binding rejects a None/non-string argument
    stack,     \* the CdkUtilStack most recently constructed (attributes, tags)
    scall      \* observation of the most recent call on the stack component

stackVars == <<context, strict, stack, scall>>

\* The bundler
VARIABLES
    outDir,    \* output_dir: whether it exists, and the content of each file
    srcDir,    \* {local_base_dir}/src: whether it exists, and its file names
    bcall      \* observation of the most recent call on the bundler

bundleVars == <<outDir, srcDir, bcall>>

\* The Lambda factory
VARIABLES
    heap,      \* the dict objects of the program: object -> its entries
    factory,   \* the CdkUtilLambda instance (its three attributes)
    lcall      \* observation of the most recent call on the factory

lambdaVars == <<heap, factory, lcall>>

vars == <<stackVars, bundleVars, lambdaVars>>

\* ------------------------------------------------------------------------
\* Bounds of the model
\* ------------------------------------------------------------------------

\* Number of environment names that may appear in the context store.
NumEnvs == 2

\* Number of file names that may appear in the source and output directories.
NumFiles == 2

\* Number of environment-variable names a Lambda environment map may hold.
NumEnvKeys == 2

\* ------------------------------------------------------------------------
\* Python values.  Values of different Python types are tagged records so
\* that they can be compared with each other.
\* ------------------------------------------------------------------------

None == [kind |-> "none"]

Str(s) == [kind |-> "str", s |-> s]

Dict(m) == [kind |-> "dict", m |-> m]

\* dict.get(key): the value under key, None when the key is absent.
dict_get(d, key) == IF key \in DOMAIN d.m THEN Str(d.m[key]) ELSE None

\* ========================================================================
\* CdkUtilStack: two-hop configuration lookup and tagging
\* ========================================================================

ENVIRONMENT_CONFIG_VAR == "config"

EnvNamePool == <<"dev", "prod", "test", "stage">>

EnvNames == {EnvNamePool[i] : i \in 1..NumEnvs}

CtxKeys == {ENVIRONMENT_CONFIG_VAR} \cup EnvNames

\* Keys a configuration record may carry, each with the value it carries.
RecKeys == {"project", "environment", "owner"}

RecValue(k) == CASE k = "project" -> "p1"
                 [] k = "environment" -> "development"
                 [] OTHER -> "ops"

\* The records of the model: empty, lacking a tag source, exactly the two
\* expected keys, and carrying a further key.
RecKeySets == {{}, {"project"}, {"project", "environment"}, RecKeys}

Records == {[k \in S |-> RecValue(k)] : S \in RecKeySets}

CtxValues == {None} \cup {Str(n) : n \in EnvNames} \cup {Dict(m) : m \in Records}

\* node.try_get_context(key).  A string key is looked up in the store.  A key
\* that is not a string (None, or a dict) is rejected by a type-checking
\* binding and looked up without a match by a binding that does not check.
try_get_context(ctx, key, chk) ==
    IF key.kind = "str"
    THEN [val |-> IF key.s \in DOMAIN ctx THEN ctx[key.s] ELSE None, err |-> "none"]
    ELSE [val |-> None, err |-> IF chk THEN "TypeError" ELSE "none"]

\* A variant that remembers the record the stack resolved at construction.
get_environment_specific_config_cached(ctx, config_name, chk, self) ==
    IF self.built
    THEN [ret |-> self.cdk_env, err |-> "none", gets |-> <<>>, ctx |-> ctx]
    ELSE LET h1 == try_get_context(ctx, config_name, chk)
             h2 == try_get_context(ctx, h1.val, chk)
         IN [ret |-> h2.val, err |-> h2.err, gets |-> <<config_name, h1.val>>,
             ctx |-> ctx]

\* A variant that skips the second lookup when the first one misses.
get_environment_specific_config_guarded(ctx, config_name, chk, self) ==
    LET h1 == try_get_context(ctx, config_name, chk)
        h2 == try_get_context(ctx, h1.val, chk)
    IN IF h1.val = None
       THEN [ret |-> None, err |-> "none", gets |-> <<config_name>>, ctx |-> ctx]
       ELSE [ret |-> h2.val, err |-> h2.err, gets |-> <<config_name, h1.val>>,
             ctx |-> ctx]

\* CdkUtilStack.get_environment_specific_config(config_name): two lookups, the
\* second keyed by the result of the first; the second lookup's result is
\* returned as it is.  gets lists the store reads in order, ctx is the store
\* after the call.
get_environment_specific_config(ctx, config_name, chk, self) ==
    LET h1 == try_get_context(ctx, config_name, chk)
        h2 == try_get_context(ctx, h1.val, chk)
    IN IF h1.err # "none"
       THEN [ret |-> None, err |-> h1.err, gets |-> <<config_name>>, ctx |-> ctx]
       ELSE [ret |-> h2.val, err |-> h2.err, gets |-> <<config_name, h1.val>>,
             ctx |-> ctx]

\* Tags.of(stack).add(key, value).  A None value is rejected by a
\* type-checking binding; otherwise the entry is appended.
Tags_add(tags, key, value, chk) ==
    IF value.kind # "str" /\ chk
    THEN [tags |-> tags, err |-> "TypeError"]
    ELSE [tags |-> Append(tags, [key |-> key, value |-> value]), err |-> "none"]

NewStack == [built |-> FALSE, cdk_env |-> None, tags |-> <<>>]

\* A variant with a copy-and-paste slip: both tags read the key "project".
CdkUtilStack_init_same_key(ctx, chk) ==
    LET r == get_environment_specific_config(ctx, Str(ENVIRONMENT_CONFIG_VAR), chk, NewStack)
    IN IF r.err # "none"
       THEN [self |-> NewStack, err |-> r.err, gets |-> r.gets, ctx |-> r.ctx]
       ELSE IF r.ret.kind # "dict"
       THEN [self |-> [NewStack EXCEPT !.cdk_env = r.ret],
             err |-> "AttributeError", gets |-> r.gets, ctx |-> r.ctx]
       ELSE LET t1 == Tags_add(<<>>, "application", dict_get(r.ret, "project"), chk)
                t2 == Tags_add(t1.tags, "environment", dict_get(r.ret, "project"), chk)
            IN IF t1.err # "none"
               THEN [self |-> [built |-> FALSE, cdk_env |-> r.ret, tags |-> t1.tags],
                     err |-> t1.err, gets |-> r.gets, ctx |-> r.ctx]
               ELSE [self |-> [built |-> t2.err = "none", cdk_env |-> r.ret,
                               tags |-> t2.tags],
                     err |-> t2.err, gets |-> r.gets, ctx |-> r.ctx]

\* CdkUtilStack.__init__: resolve the record, store it in self.cdk_env, then
\* add the two tags in order.  Each step that raises ends the constructor
\* with what was done so far.
CdkUtilStack_init(ctx, chk) ==
    LET r == get_environment_specific_config(ctx, Str(ENVIRONMENT_CONFIG_VAR), chk, NewStack)
    IN IF r.err # "none"
       THEN [self |-> NewStack, err |-> r.err, gets |-> r.gets, ctx |-> r.ctx]
       ELSE IF r.ret.kind # "dict"
       THEN \* self.cdk_env.get raises: None and str have no method get
            [self |-> [NewStack EXCEPT !.cdk_env = r.ret],
             err |-> "AttributeError", gets |-> r.gets, ctx |-> r.ctx]
       ELSE LET t1 == Tags_add(<<>>, "application", dict_get(r.ret, "project"), chk)
                t2 == Tags_add(t1.tags, "environment",
                               dict_get(r.ret, "environment"), chk)
            IN IF t1.err # "none"
               THEN [self |-> [built |-> FALSE, cdk_env |-> r.ret, tags |-> t1.tags],
                     err |-> t1.err, gets |-> r.gets, ctx |-> r.ctx]
               ELSE [self |-> [built |-> t2.err = "none", cdk_env |-> r.ret,
                               tags |-> t2.tags],
                     err |-> t2.err, gets |-> r.gets, ctx |-> r.ctx]

NoCall == [op |-> "none"]

\* The application (or cdk.json) sets a context value.
SetContext ==
    \E k \in CtxKeys, v \in CtxValues :
        /\ context[k] # v
        /\ context' = [context EXCEPT ![k] = v]
        /\ scall' = NoCall
        /\ UNCHANGED <<strict, stack, bundleVars, lambdaVars>>

\* CdkUtilStack(scope, construct_id)
Construct ==
    LET r == CdkUtilStack_init(context, strict)
    IN /\ stack' = r.self
       /\ context' = r.ctx
       /\ scall' = [op |-> "init", arg |-> Str(ENVIRONMENT_CONFIG_VAR), ret |-> None,
                    err |-> r.err, gets |-> r.gets, before |-> context]
       /\ UNCHANGED <<strict, bundleVars, lambdaVars>>

\* stack.get_environment_specific_config(config_name) on a constructed stack
GetConfig ==
    \E k \in CtxKeys :
        LET r == get_environment_specific_config(context, Str(k), strict, stack)
        IN /\ stack.built
           /\ context' = r.ctx
           /\ scall' = [op |-> "get_config", arg |-> Str(k), ret |-> r.ret,
                        err |-> r.err, gets |-> r.gets, before |-> context]
           /\ UNCHANGED <<strict, stack, bundleVars, lambdaVars>>

StackNext == SetContext \/ Construct \/ GetConfig


\* ========================================================================
\* Local bundler: ADLocalBundling.try_bundle and bundle
\* ========================================================================

FilePool == <<"handler.py", "util.py", "six.py", "extra.py">>

Names == {FilePool[i] : i \in 1..NumFiles}

\* Content of a file of the output directory, named after who wrote it last:
\* "-" no such file, "old" there before any bundling, "pip" written by the
\* installer, "src" copied from the source directory.
Contents == {"-", "old", "pip", "src"}

NoDir == [exists |-> FALSE, files |-> {}]

SrcDirs == {NoDir} \cup {[exists |-> TRUE, files |-> S] : S \in SUBSET Names}

EmptyOut == [exists |-> FALSE, files |-> [n \in Names |-> "-"]]

\* The one function directory of the model; every other path names nothing.
FnDir == "fn"

\* What one run of the installer does: the files it writes and its exit status.
InstallerRuns == [W : SUBSET Names, status : {0, 1}]

\* The directory {local_base_dir}/src.
SourceOf(local_base_dir, fsrc) ==
    IF local_base_dir = Str(FnDir) THEN fsrc ELSE NoDir

\* os.system("python -m pip install -r {local_base_dir}/requirements.txt -t
\* {output_dir}"): the installer writes its files into the output directory
\* (creating it) and exits with a status.  Without a manifest at the path it
\* writes nothing and fails.
os_system_pip(local_base_dir, out, inst) ==
    LET run == IF local_base_dir = Str(FnDir) THEN inst ELSE [W |-> {}, status |-> 1]
    IN [out |-> [exists |-> out.exists \/ run.W # {},
                 files |-> [n \in Names |-> IF n \in run.W THEN "pip"
                                            ELSE out.files[n]]],
        W |-> run.W,
        status |-> run.status]

\* A variant that behaves as shutil.copytree without dirs_exist_ok.
copytree_exclusive(src, dst, dirs_exist_ok) ==
    IF ~src.exists
    THEN [out |-> dst, err |-> "FileNotFoundError"]
    ELSE IF dst.exists
    THEN [out |-> dst, err |-> "FileExistsError"]
    ELSE [out |-> [exists |-> TRUE,
                   files |-> [n \in Names |-> IF n \in src.files THEN "src"
                                              ELSE dst.files[n]]],
          err |-> "none"]

\* shutil.copytree(src, dst, dirs_exist_ok): every file of src is written to
\* dst, replacing a file of the same name; other files of dst stay.
copytree(src, dst, dirs_exist_ok) ==
    IF ~src.exists
    THEN [out |-> dst, err |-> "FileNotFoundError"]
    ELSE IF dst.exists /\ ~dirs_exist_ok
    THEN [out |-> dst, err |-> "FileExistsError"]
    ELSE [out |-> [exists |-> TRUE,
                   files |-> [n \in Names |-> IF n \in src.files THEN "src"
                                              ELSE dst.files[n]]],
          err |-> "none"]

\* A variant that empties the output directory before copying (replace
\* instead of merge).
bundle_replace(base_dir, local_base_dir, local_lib, out, fsrc, inst) ==
    LET i == os_system_pip(local_base_dir, out, inst)
        c == copytree(SourceOf(local_base_dir, fsrc), EmptyOut, TRUE)
    IN [out |-> IF c.err = "none" THEN c.out ELSE i.out, err |-> c.err,
        W |-> i.W, status |-> i.status, steps |-> <<"install", "copy">>]

\* A variant that inspects the installer's exit status.
bundle_checked(base_dir, local_base_dir, local_lib, out, fsrc, inst) ==
    LET i == os_system_pip(local_base_dir, out, inst)
        c == copytree(SourceOf(local_base_dir, fsrc), i.out, TRUE)
    IN IF i.status # 0
       THEN [out |-> i.out, err |-> "DependencyInstallFailed",
             W |-> i.W, status |-> i.status, steps |-> <<"install">>]
       ELSE [out |-> c.out, err |-> c.err,
             W |-> i.W, status |-> i.status, steps |-> <<"install", "copy">>]

\* bundle(base_dir, local_base_dir, local_lib, output_dir): run the installer,
\* discard its exit status, then copy the source directory over the output
\* directory.  base_dir and local_lib are not used.
bundle(base_dir, local_base_dir, local_lib, out, fsrc, inst) ==
    LET i == os_system_pip(local_base_dir, out, inst)
        c == copytree(SourceOf(local_base_dir, fsrc), i.out, TRUE)
    IN [out |-> c.out, err |-> c.err,
        W |-> i.W, status |-> i.status, steps |-> <<"install", "copy">>]

\* options.environment as basic_lambda builds it, without the function
\* directory, and absent.
OptionEnvs ==
    { None,
      Dict([k \in {"base_dir"} |-> "base"]),
      Dict([k \in {"base_dir", "local_base_dir"} |->
                IF k = "base_dir" THEN "base" ELSE FnDir]) }

\* ADLocalBundling.try_bundle(output_dir, options): read the three paths from
\* options.environment, call bundle, return True.
try_bundle(out, local_env, fsrc, inst) ==
    IF local_env.kind # "dict"
    THEN [out |-> out, ret |-> "none", err |-> "AttributeError",
          W |-> {}, status |-> 0, steps |-> <<>>]
    ELSE LET b == bundle(dict_get(local_env, "base_dir"),
                         dict_get(local_env, "local_base_dir"),
                         dict_get(local_env, "local_lib"),
                         out, fsrc, inst)
         IN IF b.err # "none"
            THEN [out |-> b.out, ret |-> "none", err |-> b.err,
                  W |-> b.W, status |-> b.status, steps |-> b.steps]
            ELSE [out |-> b.out, ret |-> "True", err |-> "none",
                  W |-> b.W, status |-> b.status,
                  steps |-> Append(b.steps, "return")]

\* The developer creates, changes or removes the function's source directory.
EditSource ==
    \E d \in SrcDirs :
        /\ d # srcDir
        /\ srcDir' = d
        /\ bcall' = NoCall
        /\ UNCHANGED <<outDir, stackVars, lambdaVars>>

\* Something other than the bundler puts a file into the output directory.
TouchOutput ==
    \E n \in Names :
        /\ outDir.files[n] # "old"
        /\ outDir' = [exists |-> TRUE, files |-> [outDir.files EXCEPT ![n] = "old"]]
        /\ bcall' = NoCall
        /\ UNCHANGED <<srcDir, stackVars, lambdaVars>>

\* The output directory is removed (a fresh staging directory).
RemoveOutput ==
    /\ outDir # EmptyOut
    /\ outDir' = EmptyOut
    /\ bcall' = NoCall
    /\ UNCHANGED <<srcDir, stackVars, lambdaVars>>

\* bundle(base_dir, local_base_dir, local_lib, output_dir) called directly
Bundle ==
    \E inst \in InstallerRuns :
        LET r == bundle(Str("base"), Str(FnDir), None, outDir, srcDir, inst)
        IN /\ outDir' = r.out
           /\ bcall' = [op |-> "bundle", env |-> None, inst |-> inst,
                        W |-> r.W, status |-> r.status,
                        ret |-> "none", err |-> r.err, steps |-> r.steps,
                        before |-> outDir,
                        again |-> /\ bcall.op = "bundle"
                                  /\ bcall.err = "none"
                                  /\ bcall.inst = inst]
           /\ UNCHANGED <<srcDir, stackVars, lambdaVars>>

\* The framework calls ADLocalBundling().try_bundle(output_dir, options)
TryBundle ==
    \E inst \in InstallerRuns, e \in OptionEnvs :
        LET r == try_bundle(outDir, e, srcDir, inst)
        IN /\ outDir' = r.out
           /\ bcall' = [op |-> "try_bundle", env |-> e, inst |-> inst,
                        W |-> r.W, status |-> r.status,
                        ret |-> r.ret, err |-> r.err, steps |-> r.steps,
                        before |-> outDir, again |-> FALSE]
           /\ UNCHANGED <<srcDir, stackVars, lambdaVars>>

BundleNext == EditSource \/ TouchOutput \/ RemoveOutput \/ Bundle \/ TryBundle

\* ========================================================================
\* CdkUtilLambda: the Lambda function factory
\* ========================================================================

EnvKeyPool == <<"STAGE", "TABLE", "REGION">>

EnvKeys == {EnvKeyPool[i] : i \in 1..NumEnvKeys}

EnvVals == {"x", "y"}

\* The contents a dict of environment variables may have.
EnvMaps == UNION {[S -> EnvVals] : S \in SUBSET EnvKeys}

EmptyMap == [k \in {} |-> "x"]

\* Dict objects that outlive a call: two owned by the caller, and the one
\* __init__ creates when default_env is None.  Ref("t") names the dict
\* basic_lambda creates when environment is None, which only the constructed
\* function gets to see.
CallerObjs == {"m1", "m2"}

ObjIds == CallerObjs \cup {"d0"}

Ref(o) == [kind |-> "ref", o |-> o]

List(l) == [kind |-> "list", l |-> l]

\* Duration.seconds(amount)
Duration_seconds(amount) == [unit |-> "seconds", amount |-> amount]

\* dict.update(other): the entries of other are written into the dict,
\* replacing the entries with the same key.
dict_update(m, other) ==
    [k \in DOMAIN m \cup DOMAIN other |-> IF k \in DOMAIN other THEN other[k] ELSE m[k]]

Runtimes == {"PYTHON_3_13", "PYTHON_3_12"}

Retentions == {"ONE_MONTH", "ONE_WEEK"}

NoFactory == [built |-> FALSE, default_env |-> None,
              default_runtime |-> None, default_log_retention |-> None]

\* CdkUtilLambda.__init__(default_runtime, default_log_retention, default_env):
\* a None default_env becomes a new empty dict; the attributes are bound to
\* the arguments (default_env to the caller's object, not to a copy).
CdkUtilLambda_init(default_runtime, default_log_retention, default_env, h) ==
    [self |-> [built |-> TRUE,
               default_env |-> IF default_env = None THEN Ref("d0") ELSE default_env,
               default_runtime |-> default_runtime,
               default_log_retention |-> default_log_retention],
     heap |-> IF default_env = None THEN [h EXCEPT !["d0"] = EmptyMap] ELSE h]

\* The positional arguments of basic_lambda and the ones without a None
\* default, as the calls of the model supply them.
Profiles ==
    { [name |-> "fn_a", src_path |-> "lambdas", base_path |-> "/proj",
       rel_src_path |-> "lambdas", timeout_sec |-> 3, description |-> "first",
       memory_size |-> 128, retry_attempts |-> 0,
       dead_letter_queue |-> None, role |-> None],
      [name |-> "fn_b", src_path |-> "functions", base_path |-> "/proj",
       rel_src_path |-> "functions", timeout_sec |-> 30, description |-> "second",
       memory_size |-> 256, retry_attempts |-> 2,
       dead_letter_queue |-> Str("dlq"), role |-> Str("role")] }

\* The arguments with a None default.
Optionals ==
    [ environment : {None} \cup {Ref(o) : o \in CallerObjs \cup {"d0"}},
      lambda_runtime : {None, Str("PYTHON_3_11")},
      log_retention : {None, Str("ONE_YEAR")},
      layers : {None, List(<<"layer">>)},
      reserved_concurrent_executions : {None, Str("5")} ]

\* os.path.join of relative components
path_join(parts) == parts

\* The keyword arguments _lambda.Function is constructed with, and the
\* entries the environment dict holds at that moment.
FunctionArgs(a, o, env, entries, runtime, retention, layers) ==
    [ id |-> a.name,
      code |-> [path |-> path_join(<<a.src_path, a.name>>),
                bundling_environment |->
                    [base_dir |-> a.base_path,
                     local_base_dir |->
                         path_join(<<a.base_path, a.rel_src_path, a.name>>)]],
      handler |-> a.name \o ".lambda_handler",
      runtime |-> runtime,
      description |-> a.description,
      log_retention |-> retention,
      timeout |-> Duration_seconds(a.timeout_sec),
      retry_attempts |-> a.retry_attempts,
      environment |-> env,
      environment_entries |-> entries,
      layers |-> layers,
      memory_size |-> a.memory_size,
      dead_letter_queue |-> a.dead_letter_queue,
      role |-> a.role ]

\* A variant that merges into a copy of the caller's map.
basic_lambda_copy_then_merge(self, a, o, h) ==
    LET entries == dict_update(IF o.environment = None THEN EmptyMap
                               ELSE h[o.environment.o],
                               h[self.default_env.o])
    IN [heap |-> h,
        kwargs |-> FunctionArgs(a, o, Ref("t"), entries,
            IF o.lambda_runtime = None THEN self.default_runtime ELSE o.lambda_runtime,
            IF o.log_retention = None THEN self.default_log_retention
            ELSE o.log_retention,
            IF o.layers = None THEN List(<<>>) ELSE o.layers)]

\* CdkUtilLambda.basic_lambda(stack, name, ..., role): a None environment
\* becomes a new empty dict; default_env is written into the environment dict
\* itself; runtime, log retention and layers fall back to the instance's
\* defaults and an empty list; the function is constructed.  a holds the
\* positional arguments, o the optional ones, h the dict objects.
basic_lambda(self, a, o, h) ==
    LET env == IF o.environment = None THEN Ref("t") ELSE o.environment
        entries == dict_update(IF o.environment = None THEN EmptyMap ELSE h[env.o],
                               h[self.default_env.o])
    IN [heap |-> IF o.environment = None THEN h ELSE [h EXCEPT ![env.o] = entries],
        kwargs |-> FunctionArgs(a, o, env, entries,
            IF o.lambda_runtime = None THEN self.default_runtime ELSE o.lambda_runtime,
            IF o.log_retention = None THEN self.default_log_retention
            ELSE o.log_retention,
            IF o.layers = None THEN List(<<>>) ELSE o.layers)]

\* CdkUtilLambda(default_runtime, default_log_retention, default_env)
NewFactory ==
    \E rt \in Runtimes, lr \in Retentions,
       de \in {None} \cup {Ref(m) : m \in CallerObjs} :
        LET r == CdkUtilLambda_init(Str(rt), Str(lr), de, heap)
        IN /\ lcall = NoCall
           /\ factory' = r.self
           /\ heap' = r.heap
           /\ lcall' = NoCall
           /\ UNCHANGED <<stackVars, bundleVars>>

\* factory.basic_lambda(stack, name, ...)
BasicLambda ==
    \E a \in Profiles, o \in Optionals :
        LET r == basic_lambda(factory, a, o, heap)
        IN /\ factory.built
           /\ lcall = NoCall
           /\ o.environment = Ref("d0") => factory.default_env = Ref("d0")
           /\ heap' = r.heap
           /\ lcall' = [op |-> "basic_lambda", a |-> a, o |-> o,
                        kwargs |-> r.kwargs, before |-> heap]
           /\ UNCHANGED <<factory, stackVars, bundleVars>>

\* The caller is done with the function it got back.
Discard ==
    /\ lcall # NoCall
    /\ lcall' = NoCall
    /\ UNCHANGED <<heap, factory, stackVars, bundleVars>>

LambdaNext == NewFactory \/ BasicLambda \/ Discard


\* ========================================================================
\* Specifications.  Each component is checked on its own, the others at rest
\* in their state before any call.
\* ========================================================================

\* Before any stack is constructed: an empty context store, either kind of
\* binding.
StackInit ==
    /\ context = [k \in CtxKeys |-> None]
    /\ strict \in BOOLEAN
    /\ stack = NewStack
    /\ scall = NoCall
    /\ outDir = EmptyOut
    /\ srcDir = NoDir
    /\ bcall = NoCall
    /\ heap = [i \in ObjIds |-> EmptyMap]
    /\ factory = NoFactory
    /\ lcall = NoCall

SpecStack == StackInit /\ [][StackNext]_vars

\* Before any bundling: no output directory and no source directory yet.
BundleInit ==
    /\ outDir = EmptyOut
    /\ srcDir = NoDir
    /\ bcall = NoCall
    /\ context = [k \in CtxKeys |-> None]
    /\ strict = TRUE
    /\ stack = NewStack
    /\ scall = NoCall
    /\ heap = [i \in ObjIds |-> EmptyMap]
    /\ factory = NoFactory
    /\ lcall = NoCall

SpecBundle == BundleInit /\ [][BundleNext]_vars

\* Before any factory is created: the caller's two dicts hold any entries.
LambdaInit ==
    /\ heap \in {h \in [ObjIds -> EnvMaps] : h["d0"] = EmptyMap}
    /\ factory = NoFactory
    /\ lcall = NoCall
    /\ context = [k \in CtxKeys |-> None]
    /\ strict = TRUE
    /\ stack = NewStack
    /\ scall = NoCall
    /\ outDir = EmptyOut
    /\ srcDir = NoDir
    /\ bcall = NoCall

SpecLambda == LambdaInit /\ [][LambdaNext]_vars

\* The three components together.
Init ==
    /\ context = [k \in CtxKeys |-> None]
    /\ strict \in BOOLEAN
    /\ stack = NewStack
    /\ scall = NoCall
    /\ outDir = EmptyOut
    /\ srcDir = NoDir
    /\ bcall = NoCall
    /\ heap \in {h \in [ObjIds -> EnvMaps] : h["d0"] = EmptyMap}
    /\ factory = NoFactory
    /\ lcall = NoCall

Next == StackNext \/ BundleNext \/ LambdaNext

Spec == Init /\ [][Next]_vars


\* ------------------------------------------------------------------------
\* Properties of the bundler
\* ------------------------------------------------------------------------

\* The last call found a source directory to copy: options.environment was a
\* map naming the function directory (or bundle was called with it), and
\* {local_base_dir}/src existed.
CopyCompleted ==
    /\ srcDir.exists
    /\ \/ bcall.op = "bundle"
       \/ /\ bcall.op = "try_bundle"
          /\ bcall.env.kind = "dict"
          /\ dict_get(bcall.env, "local_base_dir") = Str(FnDir)

\* C4: after bundle returns normally the output directory holds every file
\* of the source directory with the source's content, every other file the
\* installer wrote with the installer's content, and every other file as it
\* was before the call.
C4_BundleMergesIntoOutput ==
    (bcall.op = "bundle" /\ bcall.err = "none")
        => /\ outDir.exists
           /\ \A n \in Names :
                outDir.files[n] =
                    IF n \in srcDir.files THEN "src"
                    ELSE IF n \in bcall.W THEN "pip"
                    ELSE bcall.before.files[n]

\* C4 witness: a bundle returned normally where a file written by the
\* installer was replaced by the source's, and another file that was there
\* before, named by neither, is still there.
C4_Witness ==
    /\ bcall.op = "bundle"
    /\ bcall.err = "none"
    /\ \E n \in Names : n \in bcall.W /\ n \in srcDir.files /\ outDir.files[n] = "src"
    /\ \E n \in Names : /\ n \notin bcall.W
                        /\ n \notin srcDir.files
                        /\ bcall.before.files[n] = "old"
                        /\ outDir.files[n] = "old"

C6_BundleIdempotent ==
    (bcall.op = "bundle" /\ bcall.again)
        => /\ bcall.err = "none"
           /\ outDir = bcall.before

\* C6 witness: a repeated bundle where the installer wrote a file and the
\* source directory holds one.
C6_Witness ==
    /\ bcall.op = "bundle"
    /\ bcall.again
    /\ bcall.W # {}
    /\ srcDir.files # {}
    /\ outDir = bcall.before

\* C9 (as claimed): the steps run in the order install, copy, report success;
\* the copy is started only if the installer succeeded, and success is
\* reported only if the copy succeeded.
C9_EachStepNeedsThePrevious ==
    bcall.op \in {"bundle", "try_bundle"}
        => /\ bcall.steps \in {<<>>, <<"install">>, <<"install", "copy">>,
                               <<"install", "copy", "return">>}
           /\ (Len(bcall.steps) >= 2 => bcall.status = 0)
           /\ (bcall.ret = "True" => CopyCompleted)


\* ------------------------------------------------------------------------
\* Properties of the Lambda factory
\* ------------------------------------------------------------------------

\* The dict the factory's default_env attribute refers to.
DefaultEnvObj == factory.default_env.o

\* C7 (as claimed): every parameter of basic_lambda reaches the function
\* constructor; a supplied value arrives unchanged and a None one is replaced
\* by its default (runtime and log retention from the instance, layers by an
\* empty list, environment by an empty map).
C7_EveryParameterReachesConstructor ==
    lcall.op = "basic_lambda"
        => LET k == lcall.kwargs
               a == lcall.a
               o == lcall.o
           IN /\ k.id = a.name
              /\ k.timeout = Duration_seconds(a.timeout_sec)
              /\ k.memory_size = a.memory_size
              /\ k.retry_attempts = a.retry_attempts
              /\ k.dead_letter_queue = a.dead_letter_queue
              /\ k.role = a.role
              /\ k.runtime = IF o.lambda_runtime = None THEN factory.default_runtime
                             ELSE o.lambda_runtime
              /\ k.log_retention = IF o.log_retention = None
                                   THEN factory.default_log_retention
                                   ELSE o.log_retention
              /\ k.layers = IF o.layers = None THEN List(<<>>) ELSE o.layers
              /\ IF o.environment = None
                 THEN k.environment_entries = EmptyMap
                 ELSE /\ k.environment = o.environment
                      /\ k.environment_entries = lcall.before[o.environment.o]
              /\ "reserved_concurrent_executions" \in DOMAIN k
              /\ k.reserved_concurrent_executions = o.reserved_concurrent_executions

\* C10: after a call with a caller-supplied environment dict M, M holds its
\* previous entries overridden by those of default_env, M itself (with these
\* entries) is what the function constructor receives, and after any call
\* the dict default_env refers to, and every dict other than M, holds the
\* entries it held before.
C10_MergesIntoCallersMap ==
    lcall.op = "basic_lambda"
        => /\ heap[DefaultEnvObj] = lcall.before[DefaultEnvObj]
           /\ lcall.o.environment # None =>
                LET M == lcall.o.environment.o
                IN /\ heap[M] = dict_update(lcall.before[M], lcall.before[DefaultEnvObj])
                   /\ \A k \in DOMAIN lcall.before[DefaultEnvObj] :
                        /\ k \in DOMAIN heap[M]
                        /\ heap[M][k] = lcall.before[DefaultEnvObj][k]
                   /\ \A k \in DOMAIN lcall.before[M] \ DOMAIN lcall.before[DefaultEnvObj] :
                        /\ k \in DOMAIN heap[M]
                        /\ heap[M][k] = lcall.before[M][k]
                   /\ DOMAIN heap[M] =
                        DOMAIN lcall.before[M] \cup DOMAIN lcall.before[DefaultEnvObj]
                   /\ lcall.kwargs.environment = Ref(M)
                   /\ lcall.kwargs.environment_entries = heap[M]
                   /\ \A x \in ObjIds \ {M} : heap[x] = lcall.before[x]

\* C10 witness: the caller's dict held a variable that default_env also
\* holds with another value, and one that default_env does not hold; after
\* the call the first has default_env's value and the second its own.
C10_Witness ==
    /\ lcall.op = "basic_lambda"
    /\ lcall.o.environment # None
    /\ LET M == lcall.o.environment.o
           D == DefaultEnvObj
       IN /\ M # D
          /\ \E k \in DOMAIN lcall.before[M] \cap DOMAIN heap[D] :
                /\ lcall.before[M][k] # heap[D][k]
                /\ heap[M][k] = heap[D][k]
          /\ \E k \in DOMAIN lcall.before[M] \ DOMAIN heap[D] :
                heap[M][k] = lcall.before[M][k]


\* ------------------------------------------------------------------------
\* Properties of the stack component
\* ------------------------------------------------------------------------

\* The value the first lookup of the last call read, and the value stored
\* under it, in the store as it was when the call started.
FirstHop == scall.before[scall.arg.s]

SecondHop == scall.before[FirstHop.s]

Resolves == FirstHop.kind = "str" /\ SecondHop.kind = "dict"

HopMisses == FirstHop = None \/ (FirstHop.kind = "str" /\ SecondHop = None)

\* C1: whenever get(lookup_key) is an environment name E and get(E) is a
\* record R in the store, get_environment_specific_config(lookup_key) returns
\* exactly R as the store holds it at the time of the call (not a record
\* resolved earlier), without raising, and leaves the store as it was.
C1_ResolveReturnsRecord ==
    (scall.op = "get_config" /\ Resolves)
        => /\ scall.err = "none"
           /\ scall.ret = SecondHop
           /\ context = scall.before

\* C1 witness: a resolution returned a record that differs from the one the
\* stack resolved and kept at construction (the store changed in between).
C1_Witness ==
    /\ scall.op = "get_config"
    /\ Resolves
    /\ scall.ret = SecondHop
    /\ stack.cdk_env # scall.ret
    /\ "owner" \in DOMAIN scall.ret.m

\* C2 (as claimed): whenever a hop misses, the resolution (called directly or
\* from the constructor) reports ConfigurationMissing.
C2_MissReportsConfigurationMissing ==
    (scall.op \in {"init", "get_config"} /\ HopMisses)
        => scall.err = "ConfigurationMissing"

\* C3: a completed construction leaves exactly two tags in the registry, in
\* the order application, environment, with the values the resolved record
\* holds under "project" and "environment"; the record it resolved is the one
\* the store held, whatever further keys it carries.
C3_ExactlyTwoTags ==
    /\ stack.built =>
          stack.tags = << [key |-> "application",
                           value |-> dict_get(stack.cdk_env, "project")],
                          [key |-> "environment",
                           value |-> dict_get(stack.cdk_env, "environment")] >>
    /\ (scall.op = "init" /\ scall.err = "none") =>
          /\ stack.built
          /\ Resolves
          /\ stack.cdk_env = SecondHop

\* C3 witness: a stack was constructed from a record with a further key.
C3_Witness ==
    /\ scall.op = "init"
    /\ stack.built
    /\ DOMAIN stack.cdk_env.m = RecKeys
    /\ Len(stack.tags) = 2

\* C8: every construction reads the store exactly twice, first under the
\* lookup key and then under whatever the first read returned, and leaves the
\* store as it was, whether or not the reads find anything.
C8_TwoGetsPerConstruction ==
    scall.op = "init"
        => /\ scall.gets = <<Str(ENVIRONMENT_CONFIG_VAR),
                              scall.before[ENVIRONMENT_CONFIG_VAR]>>
           /\ context = scall.before

\* C8 witness: a construction whose first read found nothing still made the
\* second read.
C8_Witness ==
    /\ scall.op = "init"
    /\ scall.before[ENVIRONMENT_CONFIG_VAR] = None
    /\ Len(scall.gets) = 2

====
